---- MODULE Spec2Model ----
(***************************************************************************)
(* DirectiveParser.parse of src/src/directive-parser.ts as a state machine. *)
(*                                                                         *)
(* One behaviour is one call of parse(doc).  The document is a sequence of  *)
(* characters; "x" stands for any character that is neither '-' nor white   *)
(* space nor part of a comment delimiter.  The three parsers the code calls *)
(* (the front-matter regular expression, remark/rehype, yaml) are outside   *)
(* the file: the first two are given by the structure the document was      *)
(* built from, the third answers nondeterministically with any document    *)
(* the yaml library can hand back.                                          *)
(***************************************************************************)
EXTENDS Integers, Sequences, FiniteSets, TLC

\* ------------------------------------------------------------------ bounds

\* HTML comments in one document.
MaxComments == 2

\* Entries the yaml parser reports over one whole document.
MaxItems == 2

\* ---------------------------------------------------------------- registry

Global == "Global"

Local == "Local"

FrontMatter == "frontMatter"

Comment == "comment"

directiveAlwaysAllowed == {FrontMatter, Comment}

Def(name, type, allowed) == [name |-> name, type |-> type, allowed |-> allowed]

builtinDirectives ==
  << Def("marp", Global, {FrontMatter}),
     Def("theme", Global, directiveAlwaysAllowed),
     Def("style", Global, directiveAlwaysAllowed),
     Def("headingDivider", Global, directiveAlwaysAllowed),
     Def("paginate", Local, directiveAlwaysAllowed),
     Def("header", Local, directiveAlwaysAllowed),
     Def("footer", Local, directiveAlwaysAllowed),
     Def("class", Local, directiveAlwaysAllowed),
     Def("backgroundColor", Local, directiveAlwaysAllowed),
     Def("backgroundImage", Local, directiveAlwaysAllowed),
     Def("backgroundPosition", Local, directiveAlwaysAllowed),
     Def("backgroundRepeat", Local, directiveAlwaysAllowed),
     Def("backgroundSize", Local, directiveAlwaysAllowed),
     Def("color", Local, directiveAlwaysAllowed),
     Def("size", Global, directiveAlwaysAllowed),
     Def("title", Global, directiveAlwaysAllowed),
     Def("description", Global, directiveAlwaysAllowed),
     Def("url", Global, directiveAlwaysAllowed),
     Def("image", Global, directiveAlwaysAllowed) >>

\* The registry is a public array seeded with the built-ins; a caller may push
\* its own definitions before parse() runs.
CallerAdded == { <<>>, << Def("_header", Global, directiveAlwaysAllowed) >> }

Registries == { builtinDirectives \o extra : extra \in CallerAdded }

\* ------------------------------------------------------------ yaml results

\* Key values the yaml parser may report.
KeyValues == { "theme", "marp", "_header", "_marp" }

\* A Pair's key is a node or null (an entry written ": v" has no key).
NullKey == [isNull |-> TRUE]

ScalarKey(v) == [isNull |-> FALSE, value |-> v]

PairItem(k) == [type |-> "PAIR", key |-> k]

\* Any entry that is not a Pair: a scalar or a nested collection.
OtherItem == [type |-> "PLAIN"]

Items == { PairItem(ScalarKey(v)) : v \in KeyValues } \cup { PairItem(NullKey), OtherItem }

ItemSeqs(n) == UNION { [1..k -> Items] : k \in 0..n }

\* contents: null (empty text), a scalar, a YAMLMap or a YAMLSeq; the two
\* collections carry an items array.  A flow sequence "[a: b]" is a YAMLSeq
\* whose entry is a Pair.
Contents(n) ==
  { [kind |-> "null"], [kind |-> "scalar"] }
    \cup { [kind |-> k, items |-> its] : k \in {"map", "seq"}, its \in ItemSeqs(n) }

\* The text opens a block sequence: "- " comes first.
IsBlockSeq(text) ==
  Len(text) >= 2 /\ text[1] = "-" /\ text[2] \in {" ", "\n", "\t"}

\* parseYaml(text): the document the yaml library returns.  Empty text has
\* no contents; a block sequence is a YAMLSeq none of whose entries is a
\* Pair; a text with errors still comes with the mapping read so far.
parseYaml(text, n) ==
  IF text = <<>>
    THEN { [errors |-> 0, contents |-> [kind |-> "null"]] }
  ELSE IF IsBlockSeq(text)
    THEN { [errors |-> e, contents |-> [kind |-> "seq", items |-> its]] :
             e \in 0..1, its \in { <<>>, << OtherItem >> } }
  ELSE { [errors |-> 0, contents |-> c] : c \in Contents(n) }
         \cup { [errors |-> 1, contents |-> c] :
                  c \in { k \in Contents(n) : k.kind = "map" } }

\* ------------------------------------------------------------- resolution

\* The callback handed to this.directives.find.
MatchExact(d, key, definedIn) ==
  definedIn \in d.allowed /\ key.value = d.name

\* MatchScoped without the test of the definition's type.
MatchScopedAnyType(d, key, definedIn) ==
  /\ definedIn \in d.allowed
  /\ key.value # d.name
  /\ key.value = "_" \o d.name

MatchScoped(d, key, definedIn) ==
  /\ definedIn \in d.allowed
  /\ key.value # d.name
  /\ d.type = Local
  /\ key.value = "_" \o d.name

Matches(d, key, definedIn) ==
  MatchExact(d, key, definedIn) \/ MatchScoped(d, key, definedIn)

\* Array.prototype.find: the first element the callback accepts.
FindIndex(ds, key, definedIn) ==
  LET hits == { i \in 1..Len(ds) : Matches(ds[i], key, definedIn) }
  IN IF hits = {} THEN 0 ELSE CHOOSE i \in hits : \A j \in hits : i <= j

Undefined == [defined |-> FALSE]

\* createDirectiveInfo({ ...directiveInfo, scoped }); scoped = FALSE stands
\* for the closure variable left undefined.
DirectiveInfoOf(ds, key, definedIn) ==
  LET i == FindIndex(ds, key, definedIn)
  IN IF i = 0
       THEN Undefined
       ELSE [defined |-> TRUE, name |-> ds[i].name, type |-> ds[i].type,
             allowed |-> ds[i].allowed,
             scoped |-> MatchScoped(ds[i], key, definedIn)]

\* item.key.value on a null key is a TypeError; the callback reaches it for
\* the first definition that permits the context.
KeyThrows(ds, key, definedIn) ==
  key.isNull /\ \E i \in 1..Len(ds) : definedIn \in ds[i].allowed

\* --------------------------------------------------------------- trimming

IsDash(c) == c = "-"

IsSpace(c) == c \in {" ", "\n", "\t"}

RECURSIVE DropWhileDash(_)
DropWhileDash(s) ==
  IF s # <<>> /\ IsDash(Head(s)) THEN DropWhileDash(Tail(s)) ELSE s

RECURSIVE DropWhileSpace(_)
DropWhileSpace(s) ==
  IF s # <<>> /\ IsSpace(Head(s)) THEN DropWhileSpace(Tail(s)) ELSE s

\* c.value.replace(/^-*\s*/, ''): a run of dashes, then a run of white space.
TrimLeft(value) == DropWhileSpace(DropWhileDash(value))

\* s matches \s*-*$ as a whole.
SpacesThenDashes(s) == DropWhileDash(DropWhileSpace(s)) = <<>>

\* trimmedLeft.replace(/\s*-*$/, ''): the leftmost suffix made of a run of
\* white space followed by a run of dashes is removed.
TrimRight(s) ==
  LET starts == { i \in 1..(Len(s) + 1) : SpacesThenDashes(SubSeq(s, i, Len(s))) }
      first == CHOOSE i \in starts : \A j \in starts : i <= j
  IN SubSeq(s, 1, first - 1)

\* --------------------------------------------------------------- document

\* Inner texts of the comments a document may hold: "<!--- xx ---->" and a
\* comment whose padding mixes dashes and blanks.
DashValue == << "-", " ", "x", "x", " ", "-", "-" >>

MixedValue == << " ", "-", " ", "x", " ", "-", " " >>

\* Raw HTML that follows the comments of a node that opened with some.
Post(pre) == IF pre = <<>> THEN <<>> ELSE << "<", "/", "x", ">" >>

Open == << "-", "-", "-", "\n" >>

Body == << "x", "\n" >>

Close == << "-", "-", "-" >>

\* Text in front of a delimiter block that does not open the document.
Prefix == << "x", "\n" >>

Sep == << "\n", "\n", "x", "\n", "\n" >>

TailText == << "\n", "x", "x", "x", "\n" >>

FmKinds == { "none", "atZero", "later" }

\* How many comments each html node of a document holds.
RECURSIVE Sum(_)
Sum(counts) == IF counts = <<>> THEN 0 ELSE Head(counts) + Sum(Tail(counts))

NodeCounts ==
  { cs \in UNION { [1..k -> 1..MaxComments] : k \in 0..MaxComments } :
      Sum(cs) <= MaxComments }

\* How the html nodes of one document look: the html in front of the
\* comments of a node, and the inner text of the comments.
Shapes == { [pre |-> <<>>, value |-> DashValue],
            [pre |-> <<>>, value |-> MixedValue],
            [pre |-> << "<", "x", ">" >>, value |-> DashValue] }

\* The documents: with or without a delimiter block, then html nodes of one
\* shape.
DocOf(f, shape, cs) ==
  [fm |-> f,
   nodes |-> [i \in 1..Len(cs) |->
                [pre |-> shape.pre, comments |-> [j \in 1..cs[i] |-> shape.value]]]]

Docs == { DocOf(f, sh, cs) : f \in FmKinds, sh \in Shapes, cs \in NodeCounts }

\* parse() is called on any document with the built-in registry, and with a
\* registry the caller has added to on the documents without html nodes.
Inputs ==
  { << d, builtinDirectives >> : d \in Docs }
    \cup { << d, r >> : d \in { e \in Docs : e.nodes = <<>> }, r \in Registries }

CommentText(value) == << "<", "!", "-", "-" >> \o value \o << "-", "-", ">" >>

RECURSIVE CommentsText(_)
CommentsText(values) ==
  IF values = <<>> THEN <<>>
  ELSE CommentText(Head(values)) \o CommentsText(Tail(values))

NodeText(n) == n.pre \o CommentsText(n.comments) \o Post(n.pre)

\* The text of nodes 1..k, each followed by what separates it from the next.
RECURSIVE NodesText(_, _)
NodesText(nodes, k) ==
  IF k = 0 THEN <<>>
  ELSE NodesText(nodes, k - 1) \o NodeText(nodes[k]) \o
       (IF k < Len(nodes) THEN Sep ELSE <<>>)

FmText(d) ==
  CASE d.fm = "none" -> <<>>
    [] d.fm = "atZero" -> Open \o Body \o Close \o << "\n" >>
    [] d.fm = "later" -> Prefix \o Open \o Body \o Close \o << "\n" >>

\* doc.getText()
Text(d) == FmText(d) \o NodesText(d.nodes, Len(d.nodes)) \o TailText

\* Document offset of the first character of node i.
NodeStart(d, i) ==
  Len(FmText(d)) + Len(NodesText(d.nodes, i - 1))

\* Offset of comment j's "<!--" inside the text of its node.
CommentStartIn(n, j) ==
  Len(n.pre) + Len(CommentsText(SubSeq(n.comments, 1, j - 1)))

\* markdown.match(frontMatterRegex): the match (index, and the lengths of
\* the groups open, body, close) or none.
FmMatch(d) ==
  CASE d.fm = "none" -> [matched |-> FALSE]
    [] d.fm = "atZero" ->
         [matched |-> TRUE, index |-> 0,
          open |-> Len(Open), body |-> Len(Body), close |-> Len(Close)]
    [] d.fm = "later" ->
         [matched |-> TRUE, index |-> Len(Prefix),
          open |-> Len(Open), body |-> Len(Body), close |-> Len(Close)]

\* visit(parseMd(markdown), 'html', n => visit(parseHtml(n.value), 'comment',
\* c => ...)): the (n, c) pairs in visiting order.  markdown is the text from
\* document offset `from` on; n's offsets are relative to it, c's to n.value.
RECURSIVE VisitsFrom(_, _, _, _)
VisitsFrom(d, from, i, j) ==
  IF i > Len(d.nodes) THEN <<>>
  ELSE IF j > Len(d.nodes[i].comments) THEN VisitsFrom(d, from, i + 1, 1)
  ELSE LET n == d.nodes[i]
           cs == CommentStartIn(n, j)
       IN << [n |-> [start |-> NodeStart(d, i) - from,
                     end |-> NodeStart(d, i) + Len(NodeText(n)) - from],
              c |-> [start |-> cs,
                     end |-> cs + Len(CommentText(n.comments[j])),
                     value |-> n.comments[j]]] >>
          \o VisitsFrom(d, from, i, j + 1)

Visits(d, from) == VisitsFrom(d, from, 1, 1)

\* doc.positionAt(offset): an offset outside the document is clamped to it.
positionAt(d, offset) ==
  IF offset < 0 THEN 0
  ELSE IF offset > Len(Text(d)) THEN Len(Text(d)) ELSE offset

\* ------------------------------------------------------------------ state

VARIABLES
  doc,         \* the document parse() is called with
  directives,  \* this.directives
  pc,          \* where parse() stands: start, frontMatter, fmDirectives, comments, done, thrown
  markdown,    \* let markdown
  index,       \* let index
  pending,     \* the (n, c) pairs the two visits have still to reach
  items,       \* what is left of contents.items in detectDirectives
  definedIn,   \* detectDirectives' third argument
  offset,      \* detectDirectives' second argument
  events,      \* every event emitted so far, in order
  blocks       \* history: per block handed to detectDirectives, what yaml answered

vars == << doc, directives, pc, markdown, index, pending, items, definedIn,
           offset, events, blocks >>

IsDirective(e) == e.type = "directive"

DirectiveCount(es) == Cardinality({ i \in 1..Len(es) : IsDirective(es[i]) })

\* Entries the yaml parser may still report.
Remaining == MaxItems - DirectiveCount(events)

\* errors.length === 0 && contents?.['items']
HasItems(y) == y.errors = 0 /\ y.contents.kind \in {"map", "seq"}

ItemsOf(y) == IF HasItems(y) THEN y.contents.items ELSE <<>>

IsMapping(y) == y.errors = 0 /\ y.contents.kind = "map"

RECURSIVE PairsOf(_)
PairsOf(its) ==
  IF its = <<>> THEN <<>>
  ELSE IF Head(its).type = "PAIR" THEN << Head(its).key >> \o PairsOf(Tail(its))
  ELSE PairsOf(Tail(its))

\* What the history keeps of one call of detectDirectives.
Block(at, where, text, y, visit) ==
  [at |-> at, definedIn |-> where, text |-> text, mapping |-> IsMapping(y),
   pairs |-> IF IsMapping(y) THEN PairsOf(y.contents.items) ELSE <<>>,
   visit |-> visit]

NoVisit == [n |-> [start |-> 0, end |-> 0], c |-> [start |-> 0, end |-> 0, value |-> <<>>]]

Init ==
  /\ \E in \in Inputs : doc = in[1] /\ directives = in[2]
  /\ pc = "start"
  /\ markdown = <<>>
  /\ index = 0
  /\ pending = <<>>
  /\ items = <<>>
  /\ definedIn = Comment
  /\ offset = 0
  /\ events = <<>>
  /\ blocks = <<>>

\* ---------------------------------------------------------------- actions

\* this.emit('startParse'); let markdown = doc.getText(); let index = 0
StartParse ==
  /\ pc = "start"
  /\ events' = Append(events, [type |-> "startParse"])
  /\ markdown' = Text(doc)
  /\ index' = 0
  /\ pc' = "frontMatter"
  /\ UNCHANGED << doc, directives, pending, items, definedIn, offset, blocks >>

\* FmRecognized without the test of the match's index.
FmRecognizedAnywhere(m) == m.matched

\* fmMatched?.index === 0
FmRecognized(m) == m.matched /\ m.index = 0

\* FmEnd without the closing delimiter.
FmEndWithoutClose(m) == m.open + m.body

\* index = open.length + body.length + close.length
FmEnd(m) == m.open + m.body + m.close

\* The front-matter branch up to the call of detectDirectives, whose loop the
\* item actions run.
FrontMatterFound ==
  /\ pc = "frontMatter"
  /\ FmRecognized(FmMatch(doc))
  /\ LET m == FmMatch(doc)
         body == SubSeq(markdown, m.index + m.open + 1, m.index + m.open + m.body)
     IN /\ index' = FmEnd(m)
        /\ events' = Append(events,
             [type |-> "frontMatter",
              body |-> SubSeq(markdown, m.index + 1,
                              m.index + m.open + m.body + m.close),
              start |-> positionAt(doc, 0),
              end |-> positionAt(doc, FmEnd(m))])
        /\ offset' = m.open
        /\ \E y \in parseYaml(body, Remaining) :
             /\ items' = ItemsOf(y)
             /\ blocks' = Append(blocks,
                  Block(Len(events) + 1, FrontMatter, body, y, NoVisit))
  /\ definedIn' = FrontMatter
  /\ pc' = "fmDirectives"
  /\ UNCHANGED << doc, directives, markdown, pending >>

\* markdown = markdown.slice(index), then parseMd(markdown)
SliceFrontMatter ==
  /\ pc = "fmDirectives"
  /\ items = <<>>
  /\ markdown' = SubSeq(markdown, index + 1, Len(markdown))
  /\ pending' = Visits(doc, Len(Text(doc)) - Len(markdown'))
  /\ pc' = "comments"
  /\ UNCHANGED << doc, directives, index, items, definedIn, offset, events, blocks >>

\* No front-matter: parseMd sees the whole text.
NoFrontMatter ==
  /\ pc = "frontMatter"
  /\ ~FmRecognized(FmMatch(doc))
  /\ pending' = Visits(doc, Len(Text(doc)) - Len(markdown))
  /\ pc' = "comments"
  /\ UNCHANGED << doc, directives, markdown, index, items, definedIn, offset,
                  events, blocks >>

InLoop == pc \in {"fmDirectives", "comments"} /\ items # <<>>

\* One turn of the loop over contents.items on a Pair: find, emit.  The
\* event's definedIn is not in the code's event; the log keeps it to tell
\* which call of detectDirectives emitted it.
EmitDirective ==
  /\ InLoop
  /\ Head(items).type = "PAIR"
  /\ ~KeyThrows(directives, Head(items).key, definedIn)
  /\ events' = Append(events,
       [type |-> "directive",
        info |-> DirectiveInfoOf(directives, Head(items).key, definedIn),
        key |-> Head(items).key, offset |-> offset, definedIn |-> definedIn])
  /\ items' = Tail(items)
  /\ UNCHANGED << doc, directives, pc, markdown, index, pending, definedIn,
                  offset, blocks >>

\* One turn of the loop on an entry that is not a Pair.
SkipItem ==
  /\ InLoop
  /\ Head(items).type # "PAIR"
  /\ items' = Tail(items)
  /\ UNCHANGED << doc, directives, pc, markdown, index, pending, definedIn,
                  offset, events, blocks >>

\* item.key.value on a Pair without key: the TypeError leaves parse().
ThrowOnNullKey ==
  /\ InLoop
  /\ Head(items).type = "PAIR"
  /\ KeyThrows(directives, Head(items).key, definedIn)
  /\ pc' = "thrown"
  /\ UNCHANGED << doc, directives, markdown, index, pending, items, definedIn,
                  offset, events, blocks >>

\* new Range(doc.positionAt(index + n.position.start.offset - 4),
\*           doc.positionAt(index + n.position.end.offset + 3))
CommentRange(d, idx, v) ==
  [start |-> positionAt(d, idx + v.n.start - 4),
   end |-> positionAt(d, idx + v.n.end + 3)]

\* CommentOffset without the characters stripped from the left.
CommentOffsetUntrimmed(idx, v) == idx + v.n.start + v.c.start + 4

\* index + n.position.start.offset + c.position.start.offset + 4 +
\*   (c.value.length - trimmedLeft.length)
CommentOffset(idx, v) ==
  idx + v.n.start + v.c.start + 4 + (Len(v.c.value) - Len(TrimLeft(v.c.value)))

\* The visitor of one comment up to the call of detectDirectives.
CommentFound ==
  /\ pc = "comments"
  /\ items = <<>>
  /\ pending # <<>>
  /\ LET v == Head(pending)
         text == TrimRight(TrimLeft(v.c.value))
     IN /\ events' = Append(events,
             [type |-> "comment", body |-> CommentText(v.c.value),
              start |-> CommentRange(doc, index, v).start,
              end |-> CommentRange(doc, index, v).end])
        /\ offset' = CommentOffset(index, v)
        /\ \E y \in parseYaml(text, Remaining) :
             /\ items' = ItemsOf(y)
             /\ blocks' = Append(blocks, Block(Len(events) + 1, Comment, text, y, v))
  /\ definedIn' = Comment
  /\ pending' = Tail(pending)
  /\ UNCHANGED << doc, directives, pc, markdown, index >>

\* this.emit('endParse')
EndParse ==
  /\ pc = "comments"
  /\ items = <<>>
  /\ pending = <<>>
  /\ events' = Append(events, [type |-> "endParse"])
  /\ pc' = "done"
  /\ UNCHANGED << doc, directives, markdown, index, pending, items, definedIn,
                  offset, blocks >>

Next ==
  \/ StartParse
  \/ FrontMatterFound
  \/ SliceFrontMatter
  \/ NoFrontMatter
  \/ EmitDirective
  \/ SkipItem
  \/ ThrowOnNullKey
  \/ CommentFound
  \/ EndParse

Spec == Init /\ [][Next]_vars

\* ------------------------------------------------- reading the event log

Finished == pc \in {"done", "thrown"}

\* Index of the last event that belongs to block k.
SpanEnd(k) ==
  IF k < Len(blocks) THEN blocks[k + 1].at - 1
  ELSE IF pc = "done" THEN Len(events) - 1 ELSE Len(events)

\* The events emitted for block k after its frontMatter/comment event.
EventsOf(k) == SubSeq(events, blocks[k].at + 1, SpanEnd(k))

\* detectDirectives has returned, or was left, for block k.
Closed(k) == k < Len(blocks) \/ Finished \/ items = <<>>

KeysOf(es) == [i \in 1..Len(es) |-> es[i].key]

\* The document offsets at which the text reads "<!--".
OpenOffsets(t) ==
  { p \in 0..(Len(t) - 4) : SubSeq(t, p + 1, p + 4) = << "<", "!", "-", "-" >> }

\* The j-th smallest of the offsets `opens`.
Nth(opens, j) ==
  CHOOSE p \in opens : Cardinality({ q \in opens : q < p }) = j - 1

\* Offset just after the first "-->" that follows the "<!--" at p.
CloseAfter(t, p) ==
  LET ends == { q \in (p + 4)..(Len(t) - 3) :
                  SubSeq(t, q + 1, q + 3) = << "-", "-", ">" >> }
  IN 3 + CHOOSE q \in ends : \A r \in ends : q <= r

\* Block k is the Ordinal(k)-th comment of the document.
Ordinal(k) == Cardinality({ i \in 1..k : blocks[i].definedIn = Comment })

CommentBlocks == { k \in 1..Len(blocks) : blocks[k].definedIn = Comment }

DirectiveEvents == { i \in 1..Len(events) : IsDirective(events[i]) }

TypeCount(t) == Cardinality({ i \in 1..Len(events) : events[i].type = t })

\* ----------------------------------------------------------------- claims

\* Document offset the locator's offsets are relative to.
Advance == Len(Text(doc)) - Len(markdown)

\* Document offset of the "<!--" of the comment block k was made from.
VisitedAt(k) == Advance + blocks[k].visit.n.start + blocks[k].visit.c.start

\* Block k's own event and the events after it are those of its block kind.
BlockWellFormed(k) ==
  /\ events[blocks[k].at].type = blocks[k].definedIn
  /\ \A i \in 1..Len(EventsOf(k)) :
       /\ IsDirective(EventsOf(k)[i])
       /\ EventsOf(k)[i].definedIn = blocks[k].definedIn
  /\ blocks[k].mapping => KeysOf(EventsOf(k)) = blocks[k].pairs

\* C1: once parse() is over, the log starts with the one startParse and ends
\* with the one endParse; the frontMatter event (at most one) and its
\* directives precede every comment event; the comment events are those of
\* the document's comments, left to right, none missing; each block's
\* directives follow its event directly, one per pair, in the pairs' order.
C1_EventsInDocumentOrder ==
  Finished =>
    /\ events # <<>>
    /\ events[1].type = "startParse"
    /\ events[Len(events)].type = "endParse"
    /\ TypeCount("startParse") = 1
    /\ TypeCount("endParse") = 1
    /\ TypeCount(FrontMatter) <= 1
    /\ \A i, j \in 1..Len(events) :
         (events[i].type = Comment /\
            (events[j].type = FrontMatter \/
               (IsDirective(events[j]) /\ events[j].definedIn = FrontMatter)))
           => j < i
    /\ LET opens == OpenOffsets(Text(doc))
       IN /\ TypeCount(Comment) = Cardinality(opens)
          /\ \A k \in CommentBlocks : VisitedAt(k) = Nth(opens, Ordinal(k))
    /\ blocks # <<>> => blocks[1].at = 2
    /\ \A k \in 1..Len(blocks) : BlockWellFormed(k)

\* C2: a directive event whose key is the exact name of a definition that
\* permits the context carries that definition, not scoped.
C2_ExactNameFirst ==
  \A i \in DirectiveEvents :
    LET e == events[i]
    IN (/\ ~e.key.isNull
        /\ \E n \in 1..Len(directives) :
             directives[n].name = e.key.value /\ e.definedIn \in directives[n].allowed)
       => /\ e.info.defined
          /\ e.info.name = e.key.value
          /\ ~e.info.scoped

\* C3: the definition a directive event carries is one of the registry that
\* permits the context, and is either named as the key, scoped not set, or
\* Local with the key its "_" alias, scoped set.  "_header" resolves to
\* header, scoped; "_marp" resolves to nothing; marp is never found in a
\* comment.
C3_ResolutionSound ==
  \A i \in DirectiveEvents :
    LET e == events[i]
    IN /\ e.info.defined =>
            /\ \E n \in 1..Len(directives) :
                 directives[n] = Def(e.info.name, e.info.type, e.info.allowed)
            /\ e.definedIn \in e.info.allowed
            /\ \/ e.key.value = e.info.name /\ ~e.info.scoped
               \/ /\ e.info.type = Local
                  /\ e.key.value = "_" \o e.info.name
                  /\ e.info.scoped
            /\ (e.info.name = "marp" => e.definedIn = FrontMatter)
       /\ e.key = ScalarKey("_header") =>
            e.info.defined /\ e.info.name = "header" /\ e.info.scoped
       /\ e.key = ScalarKey("_marp") => ~e.info.defined

C3_Witness ==
  /\ \E i \in DirectiveEvents :
       /\ events[i].key = ScalarKey("_header")
       /\ events[i].definedIn = Comment
       /\ events[i].info.defined
       /\ events[i].info.scoped
  /\ \E i \in DirectiveEvents :
       events[i].key = ScalarKey("_marp") /\ ~events[i].info.defined

\* C4: a block for which yaml reports errors or something that is not a
\* mapping has its frontMatter/comment event and no directive event, and
\* parse() is not left inside it.
C4_BadBlockSilent ==
  \A k \in 1..Len(blocks) :
    ~blocks[k].mapping =>
      /\ events[blocks[k].at].type = blocks[k].definedIn
      /\ EventsOf(k) = <<>>
      /\ ~(pc = "thrown" /\ k = Len(blocks))

\* C5: a comment event spans its comment: from the '<' of its "<!--" to just
\* after the '>' of its "-->".
C5_CommentSpan ==
  LET text == Text(doc)
      opens == OpenOffsets(text)
  IN \A k \in CommentBlocks :
       LET open == Nth(opens, Ordinal(k))
       IN /\ events[blocks[k].at].start = open
          /\ events[blocks[k].at].end = CloseAfter(text, open)

\* C6: the text of a comment handed to yaml neither starts nor ends with a
\* dash or a white space character.
C6_FullyTrimmed ==
  \A k \in CommentBlocks :
    LET t == blocks[k].text
    IN t # <<>> =>
         /\ ~IsDash(t[1]) /\ ~IsSpace(t[1])
         /\ ~IsDash(t[Len(t)]) /\ ~IsSpace(t[Len(t)])

C8_FrontMatterOnlyAtZero ==
  (FmMatch(doc).matched => FmMatch(doc).index > 0) =>
    /\ TypeCount(FrontMatter) = 0
    /\ \A k \in 1..Len(blocks) : blocks[k].definedIn # FrontMatter
    /\ \A i \in DirectiveEvents : events[i].definedIn # FrontMatter
    /\ index = 0
    /\ pc # "fmDirectives"
    /\ pc # "start" => markdown = Text(doc)
    /\ pc = "done" => TypeCount(Comment) = Cardinality(OpenOffsets(Text(doc)))

C8_Witness ==
  /\ FmMatch(doc).matched
  /\ FmMatch(doc).index > 0
  /\ pc = "done"
  /\ TypeCount(Comment) > 0

\* C9: a block that yaml reads as a mapping without errors gets one directive
\* event per Pair among its entries, in order, known to the registry or not,
\* and none for its other entries.
C9_OneEventPerPair ==
  \A k \in 1..Len(blocks) :
    (blocks[k].mapping /\ Closed(k)) =>
      /\ KeysOf(EventsOf(k)) = blocks[k].pairs
      /\ \A i \in 1..Len(EventsOf(k)) : IsDirective(EventsOf(k)[i])

\* C10: a front-matter block that opens the document is reported from 0 to
\* the end of its closing delimiter, whatever yaml makes of its body, and
\* the comments are looked for from that end on.
C10_FrontMatterSpan ==
  (FmMatch(doc).matched /\ FmMatch(doc).index = 0) =>
    LET end == Len(Open) + Len(Body) + Len(Close)
    IN /\ pc \notin {"start", "frontMatter"} =>
            /\ TypeCount(FrontMatter) = 1
            /\ events[2] = [type |-> FrontMatter, body |-> Open \o Body \o Close,
                             start |-> 0, end |-> end]
            /\ SubSeq(Text(doc), 1, end) = Open \o Body \o Close
            /\ index = end
       /\ pc \in {"comments", "done"} =>
            markdown = SubSeq(Text(doc), end + 1, Len(Text(doc)))
       /\ \A k \in CommentBlocks : VisitedAt(k) >= end
       /\ pc = "done" => TypeCount(Comment) = Cardinality(OpenOffsets(Text(doc)))

\* The body of the front-matter block is no mapping, and a comment follows.
C10_Witness ==
  /\ FmMatch(doc).matched
  /\ FmMatch(doc).index = 0
  /\ pc = "done"
  /\ blocks[1].definedIn = FrontMatter
  /\ ~blocks[1].mapping
  /\ TypeCount(Comment) > 0

====
